---- MODULE Spec2Model ----
(***************************************************************************)
(* Model of stock_market.py: the Stock class (dividend yield, P/E ratio,   *)
(* trade recording, volume weighted stock price) and the module-level      *)
(* calculate_geometric_mean.                                               *)
(*                                                                         *)
(* Numbers.  Python floats are modelled as exact rationals                 *)
(* [kind |-> "float", num |-> n, den |-> d] with d > 0.  A value returned  *)
(* by round(x, 2) is carried as an integer number of hundredths over the   *)
(* denominator 100.  The input domains below are chosen so that every      *)
(* exact decimal tie met by round() is a dyadic value (k/8), which a       *)
(* binary float holds exactly, so that round-half-to-even on the rational  *)
(* is what round() does on the float.                                      *)
(*                                                                         *)
(* Time.  time.time() is modelled by the variable clock, in seconds, which *)
(* the environment advances between calls and never sets back.             *)
(***************************************************************************)
EXTENDS Integers, Sequences, FiniteSets

VARIABLES symbol, stock_type, last_dividend, fixed_dividend, par_value,
          trades, clock, prices, last

vars == <<symbol, stock_type, last_dividend, fixed_dividend, par_value,
          trades, clock, prices, last>>

stock == <<symbol, stock_type, last_dividend, fixed_dividend, par_value>>

-----------------------------------------------------------------------------
(* Bounds of the model *)

MaxTrades == 2

MaxTicks == 3

MaxLen == 3

MaxPrice == 4

-----------------------------------------------------------------------------
(* Values *)

None == [kind |-> "None"]

ZeroDivisionError == [kind |-> "ZeroDivisionError"]

Float(n, d) == [kind |-> "float", num |-> n, den |-> d]

IsFloat(x) == x.kind = "float"

\* x / y on ints or floats given as numerator and denominator: raises on y = 0
Div(n, d) == IF d = 0 THEN ZeroDivisionError ELSE Float(n, d)

\* round(n / d, 2) for d > 0, in hundredths: nearest, ties to the even digit
RoundHundredths(n, d) ==
    LET q == (100 * n) \div d
        r == (100 * n) - q * d
    IN  IF 2 * r < d THEN q
        ELSE IF 2 * r > d THEN q + 1
        ELSE IF q % 2 = 0 THEN q ELSE q + 1

\* round(x, 2) of the outcome of a division; an exception propagates
Round2(x) == IF IsFloat(x) THEN Float(RoundHundredths(x.num, x.den), 100) ELSE x

-----------------------------------------------------------------------------
(* Stock.__init__ and the instances the model starts from: TEA, POP and GIN *)
(* as the module creates them, and three more that cover a Common stock    *)
(* with a fixed dividend, a Preferred one without (the default argument),  *)
(* and a Preferred one with no last dividend.                              *)

StockArgs ==
    { <<"TEA", "Common", 0, None, 100>>,
      <<"POP", "Common", 8, None, 100>>,
      <<"GIN", "Preferred", 8, Float(2, 100), 100>>,
      <<"CFD", "Common", 3, Float(2, 100), 100>>,
      <<"PRF", "Preferred", 3, None, 0>>,
      <<"PFD", "Preferred", 0, Float(2, 100), 60>> }

StockInit(a) ==
    /\ symbol = a[1]
    /\ stock_type = a[2]
    /\ last_dividend = a[3]
    /\ fixed_dividend = a[4]
    /\ par_value = a[5]
    /\ trades = <<>>

NoCall == [op |-> "none", args |-> <<>>, now |-> 0, ret |-> None]

Init ==
    /\ \E a \in StockArgs : StockInit(a)
    /\ clock = 0
    /\ prices = <<>>
    /\ last = NoCall

-----------------------------------------------------------------------------
(* Stock.calculate_dividend_yield *)

\* mutant: the guard lets the price 0 through
calculate_dividend_yield_StrictGuard(price) ==
    IF price < 0 THEN None
    ELSE IF stock_type = "Common" THEN Div(last_dividend, price)
    ELSE IF stock_type = "Preferred" THEN
        IF fixed_dividend = None THEN None
        ELSE Round2(Div(fixed_dividend.num * par_value, fixed_dividend.den * price))
    ELSE None

\* mutant: the Common branch rounds like the Preferred one
calculate_dividend_yield_RoundsCommon(price) ==
    IF price <= 0 THEN None
    ELSE IF stock_type = "Common" THEN Round2(Div(last_dividend, price))
    ELSE IF stock_type = "Preferred" THEN
        IF fixed_dividend = None THEN None
        ELSE Round2(Div(fixed_dividend.num * par_value, fixed_dividend.den * price))
    ELSE None

calculate_dividend_yield(price) ==
    IF price <= 0 THEN None
    ELSE IF stock_type = "Common" THEN Div(last_dividend, price)
    ELSE IF stock_type = "Preferred" THEN
        IF fixed_dividend = None THEN None
        ELSE Round2(Div(fixed_dividend.num * par_value, fixed_dividend.den * price))
    ELSE None

(* Stock.calculate_pe_ratio *)

\* mutant: no guard on last_dividend
calculate_pe_ratio_NoDividendGuard(price) ==
    IF price <= 0 THEN None
    ELSE Round2(Div(price, last_dividend))

calculate_pe_ratio(price) ==
    IF price <= 0 THEN None
    ELSE IF last_dividend = 0 THEN None
    ELSE Round2(Div(price, last_dividend))

-----------------------------------------------------------------------------
(* Stock.calculate_volume_weighted_stock_price *)

WINDOW == 15 * 60

\* mutant: a trade exactly 15 minutes old is left out
InWindow_Strict(now, trade) == now - trade.timestamp < WINDOW

InWindow(now, trade) == now - trade.timestamp <= WINDOW

\* the for loop over self.trades: <<total_price_quantity, total_quantity>>
RECURSIVE Totals(_, _, _)
Totals(log, now, acc) ==
    IF log = <<>> THEN acc
    ELSE LET trade == Head(log)
         IN  Totals(Tail(log), now,
                    IF InWindow(now, trade)
                    THEN <<acc[1] + trade.price * trade.quantity,
                           acc[2] + trade.quantity>>
                    ELSE acc)

\* mutant: no guard on total_quantity
calculate_volume_weighted_stock_price_NoGuard(now) ==
    LET t == Totals(trades, now, <<0, 0>>)
    IN  Round2(Div(t[1], t[2]))

calculate_volume_weighted_stock_price(now) ==
    LET t == Totals(trades, now, <<0, 0>>)
    IN  IF t[2] = 0 THEN None ELSE Round2(Div(t[1], t[2]))

-----------------------------------------------------------------------------
(* Stock.record_trade *)

Trade(timestamp, quantity, indicator, price) ==
    [timestamp |-> timestamp, quantity |-> quantity,
     indicator |-> indicator, price |-> price]

\* mutant: the new trade replaces the log
record_trade_Overwrite(log, timestamp, quantity, indicator, price) ==
    <<Trade(timestamp, quantity, indicator, price)>>

\* mutant: the new trade is inserted at the front
record_trade_Prepend(log, timestamp, quantity, indicator, price) ==
    <<Trade(timestamp, quantity, indicator, price)>> \o log

record_trade(log, timestamp, quantity, indicator, price) ==
    Append(log, Trade(timestamp, quantity, indicator, price))

-----------------------------------------------------------------------------
(* calculate_geometric_mean *)

\* floor(sqrt(n)) by bisection on lo..hi, lo * lo <= n < (hi + 1) * (hi + 1)
RECURSIVE ISqrtIn(_, _, _)
ISqrtIn(n, lo, hi) ==
    IF lo = hi THEN lo
    ELSE LET mid == (lo + hi + 1) \div 2
         IN  IF mid * mid <= n THEN ISqrtIn(n, mid, hi) ELSE ISqrtIn(n, lo, mid - 1)

\* round(math.sqrt(product), 2) in hundredths, for product >= 0:
\* floor(x + 1/2) = (floor(2x) + 1) \div 2 with x = 100 * sqrt(product)
\* (the search stays below 46340, whose square is the last below 2^31)
RoundSqrt(product) ==
    LET hi == IF 200 * product + 1 < 46340 THEN 200 * product + 1 ELSE 46340
    IN  Float((ISqrtIn(40000 * product, 0, hi) + 1) \div 2, 100)

\* mutant: only a negative price is refused
RECURSIVE Product_NegativeOnly(_, _)
Product_NegativeOnly(ps, product) ==
    IF ps = <<>> THEN Float(product, 1)
    ELSE IF Head(ps) < 0 THEN None
    ELSE Product_NegativeOnly(Tail(ps), product * Head(ps))

\* the for loop: None at the first price <= 0, else the product
RECURSIVE Product(_, _)
Product(ps, product) ==
    IF ps = <<>> THEN Float(product, 1)
    ELSE IF Head(ps) <= 0 THEN None
    ELSE Product(Tail(ps), product * Head(ps))

calculate_geometric_mean(ps) ==
    IF Len(ps) = 0 THEN None
    ELSE LET p == Product(ps, 1)
         IN  IF p = None THEN None ELSE RoundSqrt(p.num)

-----------------------------------------------------------------------------
(* Inputs *)

QueryPrices == {-1, 0, 1, 3}

TradeInputs ==
    { <<1, "buy", 2>>, <<1, "sell", 2>>, <<2, "buy", 4>>, <<2, "sell", 4>> }

IndexPrices == -1 .. MaxPrice

-----------------------------------------------------------------------------
(* Actions *)

\* the wall clock advances by half a window between two calls
Tick ==
    /\ clock + (WINDOW \div 2) <= MaxTicks * (WINDOW \div 2)
    /\ clock' = clock + (WINDOW \div 2)
    /\ UNCHANGED <<stock, trades, prices, last>>

CalcDividendYield ==
    \E price \in QueryPrices :
        /\ last' = [op |-> "dividend_yield", args |-> <<price>>, now |-> clock,
                    ret |-> calculate_dividend_yield(price)]
        /\ UNCHANGED <<stock, trades, clock, prices>>

CalcPeRatio ==
    \E price \in QueryPrices :
        /\ last' = [op |-> "pe_ratio", args |-> <<price>>, now |-> clock,
                    ret |-> calculate_pe_ratio(price)]
        /\ UNCHANGED <<stock, trades, clock, prices>>

RecordTrade ==
    \E a \in TradeInputs :
        /\ Len(trades) < MaxTrades
        /\ trades' = record_trade(trades, clock, a[1], a[2], a[3])
        /\ last' = [op |-> "record_trade", args |-> a, now |-> clock, ret |-> None]
        /\ UNCHANGED <<stock, clock, prices>>

\* mutant: the trades outside the window are dropped from the log
CalcVolumeWeightedStockPrice_Prunes ==
    /\ last' = [op |-> "vwsp", args |-> <<>>, now |-> clock,
                ret |-> calculate_volume_weighted_stock_price(clock)]
    /\ trades' = SelectSeq(trades, LAMBDA t : InWindow(clock, t))
    /\ UNCHANGED <<stock, clock, prices>>

CalcVolumeWeightedStockPrice ==
    /\ last' = [op |-> "vwsp", args |-> <<>>, now |-> clock,
                ret |-> calculate_volume_weighted_stock_price(clock)]
    /\ UNCHANGED <<stock, trades, clock, prices>>

Next ==
    \/ Tick
    \/ CalcDividendYield
    \/ CalcPeRatio
    \/ RecordTrade
    \/ CalcVolumeWeightedStockPrice

Spec == Init /\ [][Next]_vars

-----------------------------------------------------------------------------
(* The index calculator on its own: the caller builds a list of prices and *)
(* applies calculate_geometric_mean to it.                                 *)

InitIndex ==
    /\ StockInit(<<"TEA", "Common", 0, None, 100>>)
    /\ clock = 0
    /\ prices = <<>>
    /\ last = NoCall

AddPrice ==
    \E p \in IndexPrices :
        /\ Len(prices) < MaxLen
        /\ prices' = Append(prices, p)
        /\ UNCHANGED <<stock, trades, clock, last>>

CalcGeometricMean ==
    /\ last' = [op |-> "geometric_mean", args |-> prices, now |-> clock,
                ret |-> calculate_geometric_mean(prices)]
    /\ UNCHANGED <<stock, trades, clock, prices>>

NextIndex ==
    \/ AddPrice
    \/ CalcGeometricMean

SpecIndex == InitIndex /\ [][NextIndex]_vars

-----------------------------------------------------------------------------
(* Vocabulary of the properties *)

Minutes(m) == m * 60

\* positions of the trades of log that are at most 15 minutes old at time now
Recent(log, now) == { i \in 1 .. Len(log) : now - log[i].timestamp <= Minutes(15) }

RECURSIVE SumPriceQuantity(_, _)
SumPriceQuantity(log, S) ==
    IF S = {} THEN 0
    ELSE LET i == CHOOSE j \in S : TRUE
         IN  log[i].price * log[i].quantity + SumPriceQuantity(log, S \ {i})

RECURSIVE SumQuantity(_, _)
SumQuantity(log, S) ==
    IF S = {} THEN 0
    ELSE LET i == CHOOSE j \in S : TRUE
         IN  log[i].quantity + SumQuantity(log, S \ {i})

\* x is a number with 2 decimal places and no such number is nearer to n / d
IsRounded2(x, n, d) ==
    /\ IsFloat(x)
    /\ x.den = 100
    /\ 2 * (100 * n - x.num * d) <= d
    /\ 2 * (x.num * d - 100 * n) <= d

IsPrefix(s, t) == Len(s) <= Len(t) /\ SubSeq(t, 1, Len(s)) = s

Called(op) == last.op = op

-----------------------------------------------------------------------------
\* C1: calculate_volume_weighted_stock_price aggregates exactly the trades
\* with now - occurred_at <= 15 minutes and, when there is one, returns
\* sum(price * quantity) / sum(quantity) over them rounded to 2 decimal
\* places, whatever the direction of the trades.
C1_VwspIsWindowAverage ==
    Called("vwsp") =>
        LET W == Recent(trades, last.now)
        IN  W # {} =>
                IsRounded2(last.ret, SumPriceQuantity(trades, W), SumQuantity(trades, W))

\* a call at the window's edge: one trade exactly 15 minutes old (included),
\* one older (excluded), of different prices and directions
C1_Witness ==
    /\ Called("vwsp")
    /\ Len(trades) = 2
    /\ last.now - trades[1].timestamp > Minutes(15)
    /\ last.now - trades[2].timestamp = Minutes(15)
    /\ trades[1].price # trades[2].price
    /\ trades[1].indicator # trades[2].indicator

\* C2: calculate_volume_weighted_stock_price returns None, and raises no
\* division by zero, whenever no trade lies in the trailing 15 minutes:
\* with an empty log and with a log of old trades only.
C2_VwspNoneOnEmptyWindow ==
    Called("vwsp") /\ Recent(trades, last.now) = {} => last.ret = None

C2_Witness ==
    /\ Called("vwsp")
    /\ Len(trades) = 2
    /\ Recent(trades, last.now) = {}

\* C3: every record_trade call appends exactly one entry at the end of
\* trades, with the given quantity, direction and price and the time of the
\* call; no step removes or changes an earlier entry.
C3_TradesAppendOnly ==
    [][ /\ IsPrefix(trades, trades')
        /\ (trades' # trades => last'.op = "record_trade")
        /\ (last'.op = "record_trade" /\ <<trades, last>>' # <<trades, last>> =>
                trades' = Append(trades,
                                 [timestamp |-> clock, quantity |-> last'.args[1],
                                  indicator |-> last'.args[2], price |-> last'.args[3]]))
      ]_vars

C3_Witness ==
    /\ Called("record_trade")
    /\ Len(trades) = 2
    /\ trades[2].timestamp = last.now
    /\ trades[1].timestamp < trades[2].timestamp

\* C4: calculate_dividend_yield, calculate_pe_ratio and
\* calculate_volume_weighted_stock_price change neither trades (old trades
\* are skipped, not removed) nor the valuation parameters of the stock.
C4_QueriesChangeNothing ==
    [][ last'.op \in {"dividend_yield", "pe_ratio", "vwsp"} /\ last' # last =>
            trades' = trades /\ stock' = stock ]_vars

\* a volume weighted price was computed over a log holding a trade outside
\* the window, which is still in the log
C4_Witness ==
    /\ Called("vwsp")
    /\ Len(trades) = 2
    /\ Recent(trades, last.now) = {2}

\* C5: the entries of trades are in non-decreasing timestamp order.
C5_TradesInTimeOrder ==
    \A i, j \in 1 .. Len(trades) :
        i < j => trades[i].timestamp <= trades[j].timestamp

C5_Witness ==
    /\ Len(trades) = 2
    /\ trades[1].timestamp < trades[2].timestamp
    /\ trades[2].timestamp < clock

\* C6: for every price <= 0, calculate_dividend_yield and calculate_pe_ratio
\* return None, whatever the stock.
C6_NoneOnNonPositivePrice ==
    (Called("dividend_yield") \/ Called("pe_ratio")) /\ last.args[1] <= 0 =>
        last.ret = None

\* the call that would divide by the price 0
C6_Witness ==
    /\ Called("dividend_yield")
    /\ last.args[1] = 0
    /\ stock_type = "Common"
    /\ last_dividend # 0

\* C7: for a price > 0, calculate_dividend_yield of a Common stock is
\* last_dividend / price, not rounded; of a Preferred stock it is None
\* without a fixed dividend, else (fixed_dividend * par_value) / price
\* rounded to 2 decimal places.
C7_DividendYieldByType ==
    Called("dividend_yield") /\ last.args[1] > 0 =>
        LET price == last.args[1]
        IN  /\ stock_type = "Common" =>
                /\ IsFloat(last.ret)
                /\ last.ret.num * price = last_dividend * last.ret.den
            /\ stock_type = "Preferred" /\ fixed_dividend = None =>
                last.ret = None
            /\ stock_type = "Preferred" /\ fixed_dividend # None =>
                IsRounded2(last.ret, fixed_dividend.num * par_value,
                           fixed_dividend.den * price)

\* a Common stock whose yield, 8/3, no number of 2 decimal places equals
C7_Witness ==
    /\ Called("dividend_yield")
    /\ stock_type = "Common"
    /\ last_dividend = 8
    /\ last.args[1] = 3

\* C8: for a price > 0, calculate_pe_ratio is None when last_dividend = 0,
\* else price / last_dividend rounded to 2 decimal places; it raises no
\* division by zero.
C8_PeRatio ==
    Called("pe_ratio") /\ last.args[1] > 0 =>
        IF last_dividend = 0 THEN last.ret = None
        ELSE IsRounded2(last.ret, last.args[1], last_dividend)

C8_Witness ==
    /\ Called("pe_ratio")
    /\ last.args[1] > 0
    /\ last_dividend = 0

-----------------------------------------------------------------------------
(* Properties of calculate_geometric_mean, under SpecIndex *)

AllPositive(ps) == \A i \in 1 .. Len(ps) : ps[i] > 0

\* C9: calculate_geometric_mean returns None for an empty collection and for
\* one with an element <= 0 at any position, and a number otherwise.
C9_GeometricMeanNone ==
    Called("geometric_mean") =>
        /\ last.ret = None <=> (last.args = <<>> \/ ~AllPositive(last.args))
        /\ last.ret # None => IsFloat(last.ret)

\* the non-positive element is the last one, a zero, after positive ones
C9_Witness ==
    /\ Called("geometric_mean")
    /\ Len(last.args) = 3
    /\ last.args[1] > 0
    /\ last.args[2] > 0
    /\ last.args[3] = 0

Cap == 2 * 1000000000

\* b ^ n, or Cap when that is above Cap
RECURSIVE PowCap(_, _)
PowCap(b, n) ==
    IF n = 0 THEN 1
    ELSE LET r == PowCap(b, n - 1)
         IN  IF b = 0 THEN 0 ELSE IF r > Cap \div b THEN Cap ELSE r * b

RECURSIVE Prod(_)
Prod(ps) == IF ps = <<>> THEN 1 ELSE Head(ps) * Prod(Tail(ps))

\* x is the number of 2 decimal places nearest to the n-th root of p >= 1:
\* (x - 1/200) ^ n <= p < (x + 1/200) ^ n
IsRoundedRoot(x, p, n) ==
    /\ IsFloat(x)
    /\ x.den = 100
    /\ x.num >= 1
    /\ PowCap(2 * x.num - 1, n) <= PowCap(200, n) * p
    /\ PowCap(200, n) * p < PowCap(2 * x.num + 1, n)

\* C10: for n >= 1 positive prices, calculate_geometric_mean returns the
\* n-th root of their product rounded to 2 decimal places.
C10_GeometricMeanIsNthRoot ==
    Called("geometric_mean") /\ last.args # <<>> /\ AllPositive(last.args) =>
        IsRoundedRoot(last.ret, Prod(last.args), Len(last.args))

====
